---- MODULE Spec2Model ----
(***************************************************************************)
(* Model of the Traffic Monitor health result manager                      *)
(* (traffic_monitor/manager/health.go): the batch collector                *)
(* healthResultManagerListen and the batch processor processHealthResult,  *)
(* together with the pollers that feed cacheHealthChan and the stores the  *)
(* processor reads and replaces.                                           *)
(***************************************************************************)
EXTENDS Integers, Sequences, FiniteSets, TLC

\* ---------------------------------------------------------------- bounds
Caches == {"edge-1", "edge-2"}
MaxPolls == 3
MaxHistoryCount == 2
MaxTime == 2

\* The configurations the store is given: every cache at MaxHistoryCount, or
\* one cache at any other history count (0 included).
DefaultConfig == [c \in Caches |-> MaxHistoryCount]

Configs ==
  {DefaultConfig} \cup
  {[DefaultConfig EXCEPT ![c] = n] : c \in Caches, n \in 0..MaxHistoryCount}

\* The topology snapshots the topology store is given.
Topologies == {"to-1", "to-2"}

\* ---------------------------------------------------------------- state
VARIABLES
  cacheHealthChan,               \* results sent by pollers, not yet received
  polls,                         \* polls issued so far; index = PollID
  monitorConfig,                 \* live configuration store
  toData,                        \* live topology store
  healthHistory,                 \* live history store
  lastHealthDurationsThreadsafe, \* live duration store
  lastHealthEndTimes,            \* worker-local end-time table
  fetchCount,
  errorCount,
  localCacheStatus,              \* written by CalcAvailability
  PollFinished,                  \* number of sends on each poll's completion handle
  ticker,                        \* "nil", "armed" or "fired" (tick pending in ticker.C)
  now,                           \* clock value at its last read
  pc,                            \* position of the worker goroutine
  results,                       \* batch being collected / processed
  toDataCopy,
  monitorConfigCopy,
  healthHistoryCopy,
  calcCalls,                     \* arguments of the CalcAvailability calls of this batch
  lastHealthDurations,           \* local copy of the duration store
  i,                             \* index of the per-result loops
  d,                             \* index of the deferred signalling loop
  panicking                      \* "" or the position at which processing failed

vars == <<cacheHealthChan, polls, monitorConfig, healthHistory,
          lastHealthDurationsThreadsafe, lastHealthEndTimes, fetchCount,
          errorCount, localCacheStatus, PollFinished, ticker, now, pc,
          results, monitorConfigCopy, healthHistoryCopy, lastHealthDurations,
          i, d, panicking, toData, toDataCopy, calcCalls>>

\* ---------------------------------------------------------------- helpers
\* Go maps: functions whose domain is the set of keys present.
EmptyMap == [x \in {} |-> 0]

MapGet(m, k, zero) == IF k \in DOMAIN m THEN m[k] ELSE zero

MapPutAlone(m, k, v) == [x \in {k} |-> v]

MapPut(m, k, v) == [x \in (DOMAIN m) \cup {k} |-> IF x = k THEN v ELSE m[x]]

\* zero value of cache.Result
EmptyResult == [ID |-> "", PollID |-> 0, Error |-> FALSE, Vitals |-> <<>>]

NewResult(c, p, e) == [ID |-> c, PollID |-> p, Error |-> e, Vitals |-> <<>>]

\* uint64(x): the identity on non-negative operands; a negative operand
\* wraps around to a value above every history length
Uint64Wrap == 1073741824

ToUint64(x) == IF x < 0 THEN Uint64Wrap + x ELSE x

\* health.GetVitals: enriches the result from the previous one.  The derived
\* vitals are represented by the poll the delta was taken against.
GetVitals(r, prev, cfg) == [r EXCEPT !.Vitals = <<prev.PollID>>]

\* threadsafe.ResultHistory.Get().Copy() and threadsafe.CopyDurationMap: a map
\* with the entries of the store's value, sharing nothing with it
ResultHistoryCopy(h) == [c \in DOMAIN h |-> h[c]]

CopyDurationMap(m) == [c \in DOMAIN m |-> m[c]]

\* pruneHistory: bound the sequence to limit entries, keeping the front.
pruneHistory(history, limit) ==
  IF Len(history) > limit THEN SubSeq(history, 1, limit) ELSE history

\* monitorConfigCopy.Profile[...TrafficServer[id].Profile].Parameters.HistoryCount
\* (a missing server or profile yields the zero value 0)
HistoryCount(cfg, id) == MapGet(cfg, id, 0)

\* L179-182: the resolved maximum history length, coerced to at least 1
MaxHistoryUncoerced(cfg, id) == ToUint64(HistoryCount(cfg, id))

MaxHistory(cfg, id) ==
  LET maxHistory == ToUint64(HistoryCount(cfg, id))
  IN  IF maxHistory < 1 THEN 1 ELSE maxHistory

\* L184: prepend the result to the cache's history and prune
NewHistoryUnpruned(r, hist, maxHistory) == <<r>> \o hist

NewHistoryAppended(r, hist, maxHistory) == pruneHistory(hist \o <<r>>, maxHistory)

NewHistory(r, hist, maxHistory) == pruneHistory(<<r>> \o hist, maxHistory)

\* L169-171: the previous result handed to GetVitals
PrevResult(hist) == IF Len(hist) # 0 THEN hist[Len(hist)] ELSE EmptyResult

\* L173: only error-free results are enriched
ShouldEnrichAlways(r) == TRUE

ShouldEnrich(r) == ~r.Error

\* L162-164: every step of a batch works on the snapshots taken at its start
SnapshotBypassed(live, copy) == live

SnapshotInUse(live, copy) == copy

\* L185-187: CalcAvailability is called after the per-result loop, not in it
CallsInLoopEachResult(calls, rs, cfg, td) ==
  Append(calls, [results |-> rs, config |-> cfg, toData |-> td])

CallsInLoop(calls, rs, cfg, td) == calls

\* L189: the store is given the working copy with the batch applied
StoredHistoryStale(live, copy) == live

StoredHistory(live, copy) == copy

\* L166
FetchIncTwice(n) == n + 2

FetchInc(n) == n + 1

\* L144, L165-185: errorCount is a parameter the loop never uses, also for a
\* result that carries an error
ErrorCountOnError(n, r) == IF r.Error THEN n + 1 ELSE n

ErrorCountAfter(n, r) == n

\* L164: the per-result loop works on a copy, so the live store is untouched
LiveHistoryAliased(live, copy) == copy

LiveHistoryDuringLoop(live, copy) == live

\* L194: a duration is recorded only when an end-time is already stored
HasEndTimeAlways(endTimes, id) == TRUE

HasEndTime(endTimes, id) == id \in DOMAIN endTimes

\* L158: send the poll id on the result's completion handle
SignalSendUnlessError(pf, r) ==
  IF r.Error THEN pf ELSE [pf EXCEPT ![r.PollID] = @ + 1]

SignalSendDropped(pf, r) == pf

SignalSendTwice(pf, r) == [pf EXCEPT ![r.PollID] = @ + 2]

SignalSend(pf, r) == [pf EXCEPT ![r.PollID] = @ + 1]

\* L155-160: the signalling loop is deferred, so a panic runs it first
PanicTargetNoDefer == "panicked"

PanicTarget == "defer"

\* L117-118: select takes the ticker case whenever a tick is pending
TickerReadyUnlessInput(t, ch) == t = "fired" /\ ch = <<>>

TickerReady(t, ch) == t = "fired"

\* L125
AppendResultReplacing(rs, r) == <<r>>

AppendResult(rs, r) == Append(rs, r)

\* L126: the inner select has a default, taken when nothing waits on the channel
InnerDefaultNever(ch) == FALSE

InnerDefaultReady(ch) == ch = <<>>

\* L111-114: the old ticker is stopped and a new one, with an empty channel,
\* takes its place
NewTickerKeepsPending(t) == IF t = "nil" THEN "armed" ELSE t

NewTicker(t) == "armed"

\* health.CalcAvailability: classifies every cache of the batch
CalcAvailability(rs, cfg, status) ==
  [c \in (DOMAIN status) \cup {rs[k].ID : k \in 1..Len(rs)} |->
     LET ks == {k \in 1..Len(rs) : rs[k].ID = c}
     IN  IF ks = {} THEN status[c]
         ELSE LET last == CHOOSE k \in ks : \A k2 \in ks : k2 <= k
              IN  ~rs[last].Error]

\* ---------------------------------------------------------------- Init
Init ==
  /\ cacheHealthChan = <<>>
  /\ polls = <<>>
  /\ monitorConfig \in Configs
  /\ healthHistory = EmptyMap
  /\ lastHealthDurationsThreadsafe = EmptyMap
  /\ lastHealthEndTimes = EmptyMap
  /\ fetchCount = 0
  /\ errorCount = 0
  /\ localCacheStatus = EmptyMap
  /\ PollFinished = [p \in 1..MaxPolls |-> 0]
  /\ ticker = "nil"
  /\ now = 0
  /\ pc = "recv"
  /\ results = <<>>
  /\ monitorConfigCopy = EmptyMap
  /\ healthHistoryCopy = EmptyMap
  /\ lastHealthDurations = EmptyMap
  /\ i = 1
  /\ d = 1
  /\ panicking = ""
  /\ toData = "to-1"
  /\ toDataCopy = ""
  /\ calcCalls = <<>>

Running == pc # "panicked"

workerVars == <<pc, results, monitorConfigCopy, healthHistoryCopy,
                lastHealthDurations, i, d, panicking>>

storeVars == <<healthHistory, lastHealthDurationsThreadsafe,
               lastHealthEndTimes, fetchCount, errorCount, localCacheStatus,
               now>>

\* ---------------------------------------------------------------- environment
\* number of polls of cache c among the first n polls issued
PollsOf(c, n) == Cardinality({p \in 1..n : polls[p].ID = c})

\* number of completion signals sent to the poller of cache c (its polls
\* share its completion handle)
RECURSIVE SignalsUpTo(_, _)
SignalsUpTo(c, n) ==
  IF n = 0 THEN 0
  ELSE SignalsUpTo(c, n - 1) + (IF polls[n].ID = c THEN PollFinished[n] ELSE 0)

SignalsFor(c) == SignalsUpTo(c, Len(polls))

\* the poller of cache c has sent a result and is blocked receiving from its
\* completion handle
PollerWaiting(c) == SignalsFor(c) < PollsOf(c, Len(polls))

\* A poller sends a result for cache c on cacheHealthChan.
Submit(c, e) ==
  /\ Running
  /\ Len(polls) < MaxPolls
  /\ polls' = Append(polls, [ID |-> c, Error |-> e])
  /\ cacheHealthChan' = Append(cacheHealthChan, NewResult(c, Len(polls) + 1, e))
  /\ UNCHANGED <<monitorConfig, PollFinished, ticker>>
  /\ UNCHANGED storeVars
  /\ UNCHANGED workerVars
  /\ UNCHANGED <<toData, toDataCopy, calcCalls>>

\* A poller that sends a result only when it is not waiting for the completion
\* of its previous one.
PollerSubmit(c, e) ==
  /\ ~PollerWaiting(c)
  /\ Submit(c, e)

\* The configuration store is replaced (monitorConfig.Set by the config manager).
SetConfig(cfg) ==
  /\ Running
  /\ cfg # monitorConfig
  /\ monitorConfig' = cfg
  /\ UNCHANGED <<cacheHealthChan, polls, PollFinished, ticker>>
  /\ UNCHANGED storeVars
  /\ UNCHANGED workerVars
  /\ UNCHANGED <<toData, toDataCopy, calcCalls>>

\* The topology store is replaced (toData.Set by the topology manager).
SetTOData(td) ==
  /\ Running
  /\ td # toData
  /\ toData' = td
  /\ UNCHANGED <<cacheHealthChan, polls, monitorConfig, PollFinished, ticker,
                 toDataCopy, calcCalls>>
  /\ UNCHANGED storeVars
  /\ UNCHANGED workerVars

\* The running ticker delivers a tick into ticker.C.
TickerFire ==
  /\ Running
  /\ ticker = "armed"
  /\ ticker' = "fired"
  /\ UNCHANGED <<cacheHealthChan, polls, monitorConfig, PollFinished>>
  /\ UNCHANGED storeVars
  /\ UNCHANGED workerVars
  /\ UNCHANGED <<toData, toDataCopy, calcCalls>>

\* ---------------------------------------------------------------- collector
\* L109-114: block for the first result of a batch, restart the ticker
Recv ==
  /\ pc = "recv"
  /\ cacheHealthChan # <<>>
  /\ results' = <<Head(cacheHealthChan)>>
  /\ cacheHealthChan' = Tail(cacheHealthChan)
  /\ ticker' = NewTicker(ticker)
  /\ pc' = "select"
  /\ UNCHANGED <<polls, monitorConfig, PollFinished, monitorConfigCopy,
                 healthHistoryCopy, lastHealthDurations, i, d, panicking>>
  /\ UNCHANGED storeVars
  /\ UNCHANGED <<toData, toDataCopy, calcCalls>>

\* L117-121: case <-ticker.C
SelectTicker ==
  /\ pc = "select"
  /\ TickerReady(ticker, cacheHealthChan)
  /\ ticker' = "armed"
  /\ pc' = "call"
  /\ UNCHANGED <<cacheHealthChan, polls, monitorConfig, PollFinished, results,
                 monitorConfigCopy, healthHistoryCopy, lastHealthDurations,
                 i, d, panicking>>
  /\ UNCHANGED storeVars
  /\ UNCHANGED <<toData, toDataCopy, calcCalls>>

\* L122: default of the outer select
SelectDefault ==
  /\ pc = "select"
  /\ ~TickerReady(ticker, cacheHealthChan)
  /\ pc' = "inner"
  /\ UNCHANGED <<cacheHealthChan, polls, monitorConfig, PollFinished, ticker,
                 results, monitorConfigCopy, healthHistoryCopy,
                 lastHealthDurations, i, d, panicking>>
  /\ UNCHANGED storeVars
  /\ UNCHANGED <<toData, toDataCopy, calcCalls>>

\* L124-125: case r := <-cacheHealthChan
InnerRecv ==
  /\ pc = "inner"
  /\ cacheHealthChan # <<>>
  /\ results' = AppendResult(results, Head(cacheHealthChan))
  /\ cacheHealthChan' = Tail(cacheHealthChan)
  /\ pc' = "select"
  /\ UNCHANGED <<polls, monitorConfig, PollFinished, ticker, monitorConfigCopy,
                 healthHistoryCopy, lastHealthDurations, i, d, panicking>>
  /\ UNCHANGED storeVars
  /\ UNCHANGED <<toData, toDataCopy, calcCalls>>

\* L126-128: default of the inner select
InnerDefault ==
  /\ pc = "inner"
  /\ InnerDefaultReady(cacheHealthChan)
  /\ pc' = "call"
  /\ UNCHANGED <<cacheHealthChan, polls, monitorConfig, PollFinished, ticker,
                 results, monitorConfigCopy, healthHistoryCopy,
                 lastHealthDurations, i, d, panicking>>
  /\ UNCHANGED storeVars
  /\ UNCHANGED <<toData, toDataCopy, calcCalls>>

\* ---------------------------------------------------------------- processor
\* L152-154: the empty batch returns before the snapshots of L162-164
OnEmptyBatchSnapshot(live, before) == live

OnEmptyBatch(live, before) == before

\* L136-154: processHealthResult is called with an empty batch by a caller
\* other than the collector, while the collector waits for a result
CallEmpty ==
  /\ pc = "recv"
  /\ results = <<>>
  /\ pc' = "call"
  /\ UNCHANGED <<cacheHealthChan, polls, monitorConfig, PollFinished, ticker,
                 results, monitorConfigCopy, healthHistoryCopy,
                 lastHealthDurations, i, d, panicking>>
  /\ UNCHANGED storeVars
  /\ UNCHANGED <<toData, toDataCopy, calcCalls>>

\* L152-164: empty batch returns at once; otherwise the deferred signalling
\* is registered and the configuration and history snapshots are taken
ProcessEnter ==
  /\ pc = "call"
  /\ IF Len(results) = 0
       THEN /\ pc' = "ret"
            /\ toDataCopy' = OnEmptyBatch(toData, toDataCopy)
            /\ monitorConfigCopy' = OnEmptyBatch(monitorConfig, monitorConfigCopy)
            /\ healthHistoryCopy' = OnEmptyBatch(healthHistory, healthHistoryCopy)
            /\ UNCHANGED i
       ELSE /\ toDataCopy' = toData
            /\ monitorConfigCopy' = monitorConfig
            /\ healthHistoryCopy' = ResultHistoryCopy(healthHistory)
            /\ i' = 1
            /\ pc' = "loop"
  /\ UNCHANGED <<cacheHealthChan, polls, monitorConfig, PollFinished, ticker,
                 results, lastHealthDurations, d, panicking>>
  /\ UNCHANGED storeVars
  /\ UNCHANGED <<toData, calcCalls>>

\* L165-185: one iteration of the per-result loop
LoopStep ==
  /\ pc = "loop"
  /\ LET healthResult == results[i]
         healthResultHistory == MapGet(healthHistoryCopy, healthResult.ID, <<>>)
         prevResult == PrevResult(healthResultHistory)
         config == SnapshotInUse(monitorConfig, monitorConfigCopy)
         enriched == IF ShouldEnrich(healthResult)
                       THEN GetVitals(healthResult, prevResult, config)
                       ELSE healthResult
         maxHistory == MaxHistory(config, healthResult.ID)
     IN  /\ fetchCount' = FetchInc(fetchCount)
         /\ errorCount' = ErrorCountAfter(errorCount, healthResult)
         /\ results' = IF ShouldEnrich(healthResult)
                         THEN [results EXCEPT ![i] = enriched]
                         ELSE results
         /\ healthHistoryCopy' =
              MapPut(healthHistoryCopy, healthResult.ID,
                     NewHistory(enriched, healthResultHistory, maxHistory))
         /\ healthHistory' = LiveHistoryDuringLoop(healthHistory, healthHistoryCopy')
         /\ calcCalls' = CallsInLoop(calcCalls, results', config, toDataCopy)
  /\ IF i < Len(results)
       THEN i' = i + 1 /\ pc' = "loop"
       ELSE i' = 1 /\ pc' = "calc"
  /\ UNCHANGED <<cacheHealthChan, polls, monitorConfig, PollFinished, ticker,
                 monitorConfigCopy, lastHealthDurations, d, panicking,
                 lastHealthDurationsThreadsafe, lastHealthEndTimes,
                 localCacheStatus, now>>
  /\ UNCHANGED <<toData, toDataCopy>>

\* L187: health.CalcAvailability, once for the batch
Calc ==
  /\ pc = "calc"
  /\ LET config == SnapshotInUse(monitorConfig, monitorConfigCopy)
         topology == SnapshotInUse(toData, toDataCopy)
     IN  /\ localCacheStatus' = CalcAvailability(results, config, localCacheStatus)
         /\ calcCalls' = Append(calcCalls, [results |-> results, config |-> config,
                                            toData |-> topology])
  /\ pc' = "setHist"
  /\ UNCHANGED <<cacheHealthChan, polls, monitorConfig, PollFinished, ticker,
                 results, monitorConfigCopy, healthHistoryCopy,
                 lastHealthDurations, i, d, panicking, healthHistory,
                 lastHealthDurationsThreadsafe, lastHealthEndTimes, fetchCount,
                 errorCount, now>>
  /\ UNCHANGED <<toData, toDataCopy>>

\* L189: healthHistory.Set(healthHistoryCopy)
SetHistory ==
  /\ pc = "setHist"
  /\ healthHistory' = StoredHistory(healthHistory, healthHistoryCopy)
  /\ pc' = "durCopy"
  /\ UNCHANGED <<cacheHealthChan, polls, monitorConfig, PollFinished, ticker,
                 results, monitorConfigCopy, healthHistoryCopy,
                 lastHealthDurations, i, d, panicking,
                 lastHealthDurationsThreadsafe, lastHealthEndTimes, fetchCount,
                 errorCount, localCacheStatus, now>>
  /\ UNCHANGED <<toData, toDataCopy, calcCalls>>

\* L192: copy of the live duration store
CopyDurations ==
  /\ pc = "durCopy"
  /\ lastHealthDurations' = CopyDurationMap(lastHealthDurationsThreadsafe)
  /\ i' = 1
  /\ pc' = "durLoop"
  /\ UNCHANGED <<cacheHealthChan, polls, monitorConfig, PollFinished, ticker,
                 results, monitorConfigCopy, healthHistoryCopy, d, panicking>>
  /\ UNCHANGED storeVars
  /\ UNCHANGED <<toData, toDataCopy, calcCalls>>

\* L193-199: one iteration of the duration loop.  The clock is read twice
\* (time.Since, then time.Now) and may have advanced before each read.
DurationStep ==
  /\ pc = "durLoop"
  /\ \E e1 \in 0..1, e2 \in 0..1 :
       LET healthResult == results[i]
           tSince == now + e1
           tNow == tSince + e2
       IN  /\ tNow <= MaxTime
           /\ lastHealthDurations' =
                IF HasEndTime(lastHealthEndTimes, healthResult.ID)
                  THEN MapPut(lastHealthDurations, healthResult.ID,
                              tSince - MapGet(lastHealthEndTimes, healthResult.ID, 0))
                  ELSE lastHealthDurations
           /\ lastHealthEndTimes' = MapPut(lastHealthEndTimes, healthResult.ID, tNow)
           /\ now' = tNow
  /\ IF i < Len(results)
       THEN i' = i + 1 /\ pc' = "durLoop"
       ELSE i' = 1 /\ pc' = "setDur"
  /\ UNCHANGED <<cacheHealthChan, polls, monitorConfig, PollFinished, ticker,
                 results, monitorConfigCopy, healthHistoryCopy, d, panicking,
                 healthHistory, lastHealthDurationsThreadsafe, fetchCount,
                 errorCount, localCacheStatus>>
  /\ UNCHANGED <<toData, toDataCopy, calcCalls>>

\* L200: lastHealthDurationsThreadsafe.Set(lastHealthDurations)
SetDurations ==
  /\ pc = "setDur"
  /\ lastHealthDurationsThreadsafe' = lastHealthDurations
  /\ d' = 1
  /\ pc' = "defer"
  /\ UNCHANGED <<cacheHealthChan, polls, monitorConfig, PollFinished, ticker,
                 results, monitorConfigCopy, healthHistoryCopy,
                 lastHealthDurations, i, panicking, healthHistory,
                 lastHealthEndTimes, fetchCount, errorCount, localCacheStatus,
                 now>>
  /\ UNCHANGED <<toData, toDataCopy, calcCalls>>

\* L156-159: one iteration of the deferred loop: r.PollFinished <- r.PollID.
\* When the loop ends the function returns, or the panic goes on unwinding.
DeferStep ==
  /\ pc = "defer"
  /\ PollerWaiting(results[d].ID)
  /\ PollFinished' = SignalSend(PollFinished, results[d])
  /\ IF d < Len(results)
       THEN d' = d + 1 /\ pc' = "defer"
       ELSE d' = d /\ pc' = IF panicking # "" THEN "panicked" ELSE "ret"
  /\ UNCHANGED <<cacheHealthChan, polls, monitorConfig, ticker, results,
                 monitorConfigCopy, healthHistoryCopy, lastHealthDurations,
                 i, panicking>>
  /\ UNCHANGED storeVars
  /\ UNCHANGED <<toData, toDataCopy, calcCalls>>

\* L121/L128 and L108-109: break innerLoop, next iteration of the outer loop
\* with a fresh results slice; the locals of processHealthResult are gone
Return ==
  /\ pc = "ret"
  /\ results' = <<>>
  /\ toDataCopy' = ""
  /\ calcCalls' = <<>>
  /\ monitorConfigCopy' = EmptyMap
  /\ healthHistoryCopy' = EmptyMap
  /\ lastHealthDurations' = EmptyMap
  /\ i' = 1
  /\ d' = 1
  /\ pc' = "recv"
  /\ UNCHANGED <<cacheHealthChan, polls, monitorConfig, PollFinished, ticker,
                 panicking>>
  /\ UNCHANGED storeVars
  /\ UNCHANGED <<toData>>

\* A step of the batch (GetVitals, the history bookkeeping, CalcAvailability
\* or the duration bookkeeping) panics: the deferred function runs.
Panic ==
  /\ pc \in {"loop", "calc", "durLoop"}
  /\ panicking' = pc
  /\ d' = 1
  /\ pc' = PanicTarget
  /\ UNCHANGED <<cacheHealthChan, polls, monitorConfig, PollFinished, ticker,
                 results, monitorConfigCopy, healthHistoryCopy,
                 lastHealthDurations, i>>
  /\ UNCHANGED storeVars
  /\ UNCHANGED <<toData, toDataCopy, calcCalls>>

\* ---------------------------------------------------------------- specifications
\* the worker goroutine: healthResultManagerListen calling processHealthResult
Worker ==
  \/ Recv
  \/ SelectTicker
  \/ SelectDefault
  \/ InnerRecv
  \/ InnerDefault
  \/ ProcessEnter
  \/ LoopStep
  \/ Calc
  \/ SetHistory
  \/ CopyDurations
  \/ DurationStep
  \/ SetDurations
  \/ DeferStep
  \/ Return

\* pollers deliver results, errored or not, under a configuration that stays
\* as loaded
Next ==
  \/ \E c \in Caches, e \in BOOLEAN : Submit(c, e)
  \/ TickerFire
  \/ Worker

Spec == Init /\ [][Next]_vars

\* pollers deliver error-free results while the configuration store is replaced
NextConfig ==
  \/ \E c \in Caches : Submit(c, FALSE)
  \/ \E cfg \in Configs : SetConfig(cfg)
  \/ TickerFire
  \/ Worker

SpecConfig == Init /\ [][NextConfig]_vars

\* the poller of one cache delivers error-free results while the configuration
\* store and the topology store are replaced
NextSnapshot ==
  \/ Submit("edge-1", FALSE)
  \/ \E cfg \in Configs : SetConfig(cfg)
  \/ \E td \in Topologies : SetTOData(td)
  \/ TickerFire
  \/ Worker

SpecSnapshot == Init /\ [][NextSnapshot]_vars

\* pollers that wait for the completion of their poll before the next one; the
\* polls of edge-1 succeed, those of edge-2 succeed or fail; the worker
\* goroutine is scheduled whenever it can run
NextPollers ==
  \/ \E c \in Caches, e \in BOOLEAN : (e => c = "edge-2") /\ PollerSubmit(c, e)
  \/ TickerFire
  \/ Worker

SpecPollers == Init /\ [][NextPollers]_vars /\ WF_vars(Worker)

\* the program of Spec when a step of a batch may fail unexpectedly
NextFail == Next \/ Panic

SpecFail == Init /\ [][NextFail]_vars

\* error-free results arrive and processHealthResult is also called with an
\* empty batch
NextDirect ==
  \/ \E c \in Caches : Submit(c, FALSE)
  \/ TickerFire
  \/ Worker
  \/ CallEmpty

SpecDirect == Init /\ [][NextDirect]_vars

\* ---------------------------------------------------------------- properties
Max(a, b) == IF a >= b THEN a ELSE b

Min(a, b) == IF a <= b THEN a ELSE b

Take(s, n) == SubSeq(s, 1, Min(n, Len(s)))

Reverse(s) == [k \in 1..Len(s) |-> s[Len(s) + 1 - k]]

\* caches named by the batch, and the batch's results for one cache
BatchIDs == {results[k].ID : k \in 1..Len(results)}

BatchFor(c) == SelectSeq(results, LAMBDA r : r.ID = c)

\* most-recent-first: poll ids are handed out in the order of submission
MostRecentFirst(h) ==
  \A a \in 1..Len(h), b \in 1..Len(h) : a < b => h[a].PollID > h[b].PollID

\* the history of cache c once the whole batch is applied to the store value h
\* under the configuration cfg
HistoryAfterBatch(h, cfg, c) ==
  Take(Reverse(BatchFor(c)) \o MapGet(h, c, <<>>), Max(1, HistoryCount(cfg, c)))

\* C1: for every non-empty batch each result is sent exactly one completion
\* signal: when processHealthResult returns, every result of the batch (and of
\* the batches before it) has been signalled once, no later poll has been
\* signalled, and no poll is ever signalled twice.
C1_EachResultSignalledOnce ==
  /\ \A p \in 1..MaxPolls : PollFinished[p] <= 1
  /\ (pc = "ret" /\ Len(results) > 0) =>
       /\ \A k \in 1..Len(results) : PollFinished[results[k].PollID] = 1
       /\ Cardinality({p \in 1..MaxPolls : PollFinished[p] = 1}) = fetchCount
       /\ d = Len(results)

C1_Witness ==
  /\ pc = "ret"
  /\ Len(results) >= 2
  /\ \E k \in 1..Len(results) : results[k].Error
  /\ \A k \in 1..Len(results) : PollFinished[results[k].PollID] = 1

\* C2: when a step of the batch fails, every result of the batch, those after
\* the failing one included, has been sent its completion signal by the time
\* the failure leaves processHealthResult.
C2_SignalledOnFailure ==
  pc = "panicked" =>
    \A k \in 1..Len(results) : PollFinished[results[k].PollID] = 1

C2_Witness ==
  /\ pc = "panicked"
  /\ panicking = "loop"
  /\ i < Len(results)
  /\ PollFinished[results[Len(results)].PollID] = 1

C4_StoresReplacedWhole ==
  [][ /\ healthHistory' # healthHistory =>
           /\ pc = "setHist"
           /\ \A c \in BatchIDs :
                /\ c \in DOMAIN healthHistory'
                /\ healthHistory'[c] =
                     HistoryAfterBatch(healthHistory, monitorConfigCopy, c)
           /\ \A c \in Caches \ BatchIDs :
                MapGet(healthHistory', c, <<>>) = MapGet(healthHistory, c, <<>>)
      /\ lastHealthDurationsThreadsafe' # lastHealthDurationsThreadsafe =>
           /\ pc = "setDur"
           /\ \A c \in BatchIDs :
                c \in DOMAIN lastHealthDurationsThreadsafe'
                  <=> PollsOf(c, fetchCount) >= 2
           /\ \A c \in Caches \ BatchIDs :
                MapGet(lastHealthDurationsThreadsafe', c, -1)
                  = MapGet(lastHealthDurationsThreadsafe, c, -1)
    ]_vars

C4_Witness ==
  /\ pc = "loop"
  /\ i = 2
  /\ healthHistoryCopy # healthHistory
  /\ \E c \in DOMAIN healthHistory : c \in BatchIDs

\* the duration table as it stands: the local copy while the duration loop
\* runs, the live store otherwise
CurrentDurations ==
  IF pc \in {"durLoop", "setDur"} THEN lastHealthDurations
  ELSE lastHealthDurationsThreadsafe

\* number of results that have been through the duration loop
DurationsDone ==
  CASE pc = "durLoop" -> fetchCount - Len(results) + (i - 1)
    [] pc \in {"loop", "calc", "setHist", "durCopy"} -> results[1].PollID - 1
    [] OTHER -> fetchCount

\* C5: a cache's first processed result records no duration, its Nth (N >= 2)
\* records the time elapsed since the end-time stored for the (N-1)th, and the
\* end-time is stored on every processed result: a cache has an end-time iff it
\* has had a result processed and a duration iff it has had two; each
\* iteration of the duration loop stores clock - previous end-time when there
\* is a previous end-time, nothing otherwise, and stores the end-time anyway.
C5_DurationBetweenResults ==
  /\ [](/\ DOMAIN lastHealthEndTimes =
             {c \in Caches : PollsOf(c, DurationsDone) >= 1}
        /\ DOMAIN CurrentDurations =
             {c \in Caches : PollsOf(c, DurationsDone) >= 2})
  /\ [][ (pc = "durLoop" /\ <<pc, i>>' # <<pc, i>>) =>
           LET c == results[i].ID
           IN  /\ c \in DOMAIN lastHealthEndTimes =>
                    \E t \in now..now' :
                      lastHealthDurations'[c] = t - lastHealthEndTimes[c]
               /\ c \notin DOMAIN lastHealthEndTimes =>
                    lastHealthDurations' = lastHealthDurations
               /\ \A x \in Caches \ {c} :
                    MapGet(lastHealthDurations', x, -1)
                      = MapGet(lastHealthDurations, x, -1)
               /\ lastHealthEndTimes'[c] = now'
               /\ now' >= now
       ]_vars

C5_Witness ==
  /\ pc = "ret"
  /\ \E c \in DOMAIN lastHealthDurationsThreadsafe :
       /\ lastHealthDurationsThreadsafe[c] = 1
       /\ healthHistory[c][1].Error
  /\ \E c \in DOMAIN lastHealthEndTimes :
       c \notin DOMAIN lastHealthDurationsThreadsafe

\* C6: a result carrying an error is not enriched, is still recorded in its
\* cache's history (at the place its rank in the batch gives it, unless later
\* results of the batch pushed it out), is still signalled, and the error-free
\* results of the batch are enriched, recorded and signalled all the same.
C6_ErrorSkipsOnlyVitals ==
  pc = "ret" =>
    \A k \in 1..Len(results) :
      LET r == results[k]
          later == Cardinality({m \in (k + 1)..Len(results) : results[m].ID = r.ID})
      IN  /\ r.Error <=> r.Vitals = <<>>
          /\ PollFinished[r.PollID] = 1
          /\ r.ID \in DOMAIN healthHistory
          /\ later < Max(1, HistoryCount(monitorConfigCopy, r.ID)) =>
               /\ Len(healthHistory[r.ID]) > later
               /\ healthHistory[r.ID][later + 1] = r

C6_Witness ==
  /\ pc = "ret"
  /\ Len(results) >= 2
  /\ results[1].Error
  /\ ~results[2].Error
  /\ results[1].ID = results[2].ID
  /\ healthHistory[results[1].ID] = <<results[2], results[1]>>

\* C7: once the flush ticker of the batch has fired, the collector's next
\* select processes the batch even though results are still waiting on the
\* channel, and at most one further result is appended after the tick: an
\* append with the tick pending comes from the inner select and leads back to
\* the outer select, which then takes the ticker case.
C7_FlushOnTick ==
  [][ /\ (pc = "select" /\ ticker = "fired" /\ pc' # pc) =>
           /\ pc' = "call"
           /\ results' = results
      /\ (ticker = "fired" /\ pc \in {"select", "inner"}
            /\ Len(results') > Len(results)) =>
           /\ pc = "inner"
           /\ pc' = "select"
           /\ ticker' = "fired"
           /\ Len(results') = Len(results) + 1
    ]_vars

C7_Witness ==
  /\ pc = "select"
  /\ ticker = "fired"
  /\ Len(results) = 2
  /\ cacheHealthChan # <<>>

C9_ThreeResultScenario ==
  (/\ pc = "ret"
   /\ Len(results) = 3
   /\ results[1].PollID = 1
   /\ \A k \in 1..3 : results[k].ID = results[1].ID /\ ~results[k].Error
   /\ HistoryCount(monitorConfigCopy, results[1].ID) = 2) =>
    /\ healthHistory = MapPut(EmptyMap, results[1].ID, <<results[3], results[2]>>)
    /\ fetchCount = 3
    /\ DOMAIN lastHealthDurationsThreadsafe = {results[1].ID}

C9_Witness ==
  /\ pc = "ret"
  /\ Len(results) = 3
  /\ results[1].PollID = 1
  /\ \A k \in 1..3 : results[k].ID = "edge-1" /\ ~results[k].Error
  /\ HistoryCount(monitorConfigCopy, "edge-1") = 2
  /\ fetchCount = 3

\* results received and not yet through processHealthResult: the batch, once
\* opened, followed by what waits on the channel
Pending == IF pc = "recv" THEN cacheHealthChan ELSE results \o cacheHealthChan

\* number of results processed by the batches before the current one
ProcessedBefore ==
  CASE pc = "loop" -> fetchCount - (i - 1)
    [] pc \in {"calc", "setHist", "durCopy", "durLoop", "setDur", "defer", "ret"}
         -> fetchCount - Len(results)
    [] OTHER -> fetchCount

\* C10: every result sent to the collector is in exactly one place: counted by
\* the fetch counter as processed, in the batch, or still on the channel; the
\* batch followed by the channel holds the polls not yet processed, each once,
\* unchanged and in the order they were sent.
C10_EachResultInOneBatch ==
  /\ ProcessedBefore + Len(Pending) = Len(polls)
  /\ \A k \in 1..Len(Pending) :
       /\ Pending[k].PollID = ProcessedBefore + k
       /\ Pending[k].ID = polls[ProcessedBefore + k].ID
       /\ Pending[k].Error = polls[ProcessedBefore + k].Error
  /\ pc # "recv" => Len(results) >= 1

C10_Witness ==
  /\ pc = "call"
  /\ Len(results) = 2
  /\ Len(cacheHealthChan) = 1
  /\ fetchCount = 0

\* C11: no failure of a batch escapes the worker: after a step of a batch has
\* failed, the worker goroutine is still running its loop.
C11_WorkerSurvivesFailure ==
  panicking # "" => pc # "panicked"

\* C12: with pollers that wait on their completion handle after each result
\* and computations that terminate, every result sent to the worker is
\* eventually sent its completion signal.
C12_EveryPollSignalled ==
  \A p \in 1..MaxPolls : (Len(polls) >= p) ~> (PollFinished[p] >= 1)

C12_Witness ==
  /\ Len(polls) >= 2
  /\ polls[1].ID = polls[2].ID
  /\ PollFinished[1] = 1
  /\ PollFinished[2] = 1

\* the poll of cache c processed last before poll p (0 when there is none)
PrevPollOf(c, p) ==
  LET before == {q \in 1..(p - 1) : polls[q].ID = c}
  IN  IF before = {} THEN 0
      ELSE CHOOSE q \in before : \A q2 \in before : q2 <= q

\* C13: the previous result handed to the vitals computation is the most
\* recent entry of the cache's history at that point (the result of the
\* cache's preceding poll), or an empty result when the cache has no history:
\* every enriched result recorded in the history store carries vitals taken
\* against its cache's preceding poll.
C13_PrevIsMostRecent ==
  \A c \in DOMAIN healthHistory :
    \A k \in 1..Len(healthHistory[c]) :
      LET r == healthHistory[c][k]
      IN  ~r.Error => r.Vitals = <<PrevPollOf(c, r.PollID)>>

C15_SnapshotsPerBatch ==
  [][ /\ (pc = "call" /\ pc' = "loop") =>
           /\ monitorConfigCopy' = monitorConfig
           /\ toDataCopy' = toData
           /\ healthHistoryCopy' = healthHistory
      /\ pc \in {"loop", "calc"} =>
           /\ monitorConfigCopy' = monitorConfigCopy
           /\ toDataCopy' = toDataCopy
      /\ (pc = "loop" /\ <<pc, i>>' # <<pc, i>>) =>
           LET c == results[i].ID
               H == MapGet(healthHistoryCopy, c, <<>>)
           IN  Len(healthHistoryCopy'[c]) =
                 Min(Len(H) + 1, Max(1, HistoryCount(monitorConfigCopy, c)))
      /\ (pc = "calc" /\ pc' # pc) =>
           calcCalls' = <<[results |-> results, config |-> monitorConfigCopy,
                           toData |-> toDataCopy]>>
    ]_vars

C15_Witness ==
  /\ pc = "setHist"
  /\ Len(results) = 2
  /\ toData # toDataCopy
  /\ HistoryCount(monitorConfig, "edge-1") = 1
  /\ HistoryCount(monitorConfigCopy, "edge-1") = 2
  /\ Len(healthHistoryCopy["edge-1"]) = 2
  /\ calcCalls[1].config = monitorConfigCopy
  /\ calcCalls[1].toData = toDataCopy

\* C16: for every non-empty batch the availability computation is invoked
\* exactly once, given the whole batch, after the per-result history updates of
\* all its results and before the live history store and the live duration
\* store are replaced.
C16_CalcAvailabilityOnce ==
  /\ pc \in {"call", "loop", "calc"} => calcCalls = <<>>
  /\ pc \in {"setHist", "durCopy", "durLoop", "setDur", "defer", "ret"} =>
       /\ Len(calcCalls) = 1
       /\ calcCalls[1].results = results
  /\ pc \in {"calc", "setHist"} =>
       /\ \A c \in BatchIDs :
            /\ c \in DOMAIN healthHistoryCopy
            /\ healthHistoryCopy[c] =
                 HistoryAfterBatch(healthHistory, monitorConfigCopy, c)
       /\ healthHistory # healthHistoryCopy
       /\ lastHealthDurations = EmptyMap
       /\ \A k \in 1..Len(results) : PollFinished[results[k].PollID] = 0

C16_Witness ==
  /\ pc = "setHist"
  /\ Len(results) >= 2
  /\ Len(calcCalls) = 1
  /\ fetchCount = 3

\* a completion signal is being sent for results[d] and the batch is fully
\* applied: the availability computation has run, the live history store holds
\* the working copy, with the result at the place its rank in the batch gives
\* it unless later results pushed it out, and the live duration store holds
\* the local copy made after the end-time of the result's cache was stored
SignalledAfterApplied ==
  /\ pc = "defer"
  /\ LET r == results[d]
         later == Cardinality({m \in (d + 1)..Len(results) : results[m].ID = r.ID})
     IN  /\ Len(calcCalls) = 1
         /\ healthHistory = healthHistoryCopy
         /\ r.ID \in DOMAIN healthHistory
         /\ later < Max(1, HistoryCount(monitorConfigCopy, r.ID)) =>
              /\ Len(healthHistory[r.ID]) > later
              /\ healthHistory[r.ID][later + 1] = r
         /\ r.ID \in DOMAIN lastHealthEndTimes
         /\ lastHealthDurationsThreadsafe = lastHealthDurations
         /\ (r.ID \in DOMAIN lastHealthDurationsThreadsafe
               <=> PollsOf(r.ID, fetchCount) >= 2)

\* C17 as stated: a completion signal is sent only after the batch containing
\* the result has been fully applied to the live history and duration stores.
C17_SignalOnlyAfterApplied ==
  [][ PollFinished' # PollFinished => SignalledAfterApplied ]_vars

\* C17 (amended): a completion signal is sent only by the deferred loop, and
\* when no step of the batch has failed it is sent only after the batch has
\* been fully applied to the live history and duration stores.
C17_SignalAfterAppliedUnlessFailed ==
  [][ PollFinished' # PollFinished =>
        /\ pc = "defer"
        /\ panicking = "" => SignalledAfterApplied
    ]_vars

C17_Witness ==
  /\ pc = "defer"
  /\ panicking = ""
  /\ d = 2
  /\ PollFinished[results[1].PollID] = 1
  /\ results[1].ID = results[2].ID
  /\ healthHistory[results[1].ID] = <<results[2], results[1]>>

\* the steps of the inner loop of the collector (L116-130)
InnerLoopStep == SelectTicker \/ SelectDefault \/ InnerRecv \/ InnerDefault

\* C18: the worker has no enabled step only while it waits for the first
\* result of a batch with the input channel empty; in the inner loop it always
\* has an enabled step; it is never without a step while results are pending.
C18_WorkerNeverStuck ==
  /\ pc \in {"select", "inner"} => ENABLED InnerLoopStep
  /\ ~(ENABLED Worker) => (pc = "recv" /\ cacheHealthChan = <<>>)
  /\ Pending # <<>> => ENABLED Worker

C18_Witness ==
  /\ pc = "inner"
  /\ ticker = "armed"
  /\ cacheHealthChan = <<>>
  /\ Len(results) = 2
  /\ fetchCount >= 1

\* the polls of cache c submitted and not yet signalled
Unsignalled(c) == {k \in 1..Len(polls) : polls[k].ID = c /\ PollFinished[k] = 0}

\* C19: with pollers that wait for the completion of a poll before the next
\* one, each cache has at most one poll submitted and not yet signalled, and
\* that poll is in the channel, in the batch being collected or in the batch
\* being processed.
C19_OneInFlightPerCache ==
  \A c \in Caches :
    /\ Cardinality(Unsignalled(c)) <= 1
    /\ \A k \in 1..Len(polls) : PollFinished[k] <= 1
    /\ \A k \in Unsignalled(c) :
         Cardinality({m \in 1..Len(Pending) :
                        Pending[m].PollID = k /\ Pending[m].ID = c}) = 1

C19_Witness ==
  /\ pc = "defer"
  /\ Len(results) = 2
  /\ d = 2
  /\ Cardinality(Unsignalled(results[1].ID)) = 0
  /\ Cardinality(Unsignalled(results[2].ID)) = 1
  /\ fetchCount = MaxPolls

\* C20: an empty channel at the non-blocking read makes the collector process
\* the batch at once, whether or not the ticker has fired; a processed batch
\* is never empty; opening a batch starts a fresh ticker, so a tick of the
\* previous ticker is never seen by the new batch.
C20_FlushWhenDrained ==
  [][ /\ (pc = "inner" /\ cacheHealthChan = <<>>) => ENABLED InnerDefault
      /\ (pc = "inner" /\ cacheHealthChan = <<>> /\ pc' # pc) =>
           /\ pc' = "call"
           /\ results' = results
           /\ ticker' = ticker
      /\ pc' = "call" => results' # <<>>
      /\ (pc = "recv" /\ pc' # pc) =>
           /\ pc' = "select"
           /\ ticker' = "armed"
           /\ Len(results') = 1
    ]_vars

C20_Witness ==
  /\ pc = "call"
  /\ ticker = "armed"
  /\ cacheHealthChan = <<>>
  /\ Len(results) = 1
  /\ fetchCount >= 1

\* C21: a call of processHealthResult with an empty batch returns with
\* nothing changed: no snapshot, no counter, no store, no availability
\* computation, no end-time, no completion signal.
C21_EmptyBatchNoOp ==
  [][ (results = <<>> /\ pc \in {"call", "ret"} /\ pc' # pc) =>
        /\ pc' = (IF pc = "call" THEN "ret" ELSE "recv")
        /\ UNCHANGED <<toDataCopy, monitorConfigCopy, healthHistoryCopy>>
        /\ UNCHANGED <<fetchCount, errorCount>>
        /\ UNCHANGED <<healthHistory, lastHealthDurationsThreadsafe,
                       localCacheStatus>>
        /\ UNCHANGED <<calcCalls, lastHealthEndTimes, lastHealthDurations,
                       PollFinished>>
        /\ UNCHANGED <<cacheHealthChan, polls, monitorConfig, toData, ticker,
                       now, results, i, d, panicking>>
    ]_vars

C21_Witness ==
  /\ pc = "ret"
  /\ results = <<>>
  /\ fetchCount >= 2
  /\ healthHistory # EmptyMap
  /\ lastHealthDurationsThreadsafe # EmptyMap

\* the entry of cache c in a map, empty when the map has none
Entry(m, c) == IF c \in DOMAIN m THEN <<m[c]>> ELSE <<>>

\* C22: the history, the duration and the end-time of a cache change only
\* while a batch that holds a result of that cache is processed; the entries
\* of every other cache are the same in the working copies and in the stores.
C22_OtherCachesUntouched ==
  [][ \A c \in Caches :
        /\ ( \/ Entry(healthHistory, c)' # Entry(healthHistory, c)
             \/ Entry(lastHealthDurationsThreadsafe, c)'
                  # Entry(lastHealthDurationsThreadsafe, c)
             \/ Entry(lastHealthEndTimes, c)' # Entry(lastHealthEndTimes, c) )
           => (pc \in {"setHist", "durLoop", "setDur"} /\ c \in BatchIDs)
        /\ (pc' \in {"loop", "calc", "setHist"} /\ c \notin BatchIDs')
           => Entry(healthHistoryCopy, c)' = Entry(healthHistory, c)'
        /\ (pc' \in {"durLoop", "setDur"} /\ c \notin BatchIDs')
           => Entry(lastHealthDurations, c)'
                = Entry(lastHealthDurationsThreadsafe, c)'
    ]_vars

C22_Witness ==
  /\ pc = "defer"
  /\ BatchIDs = {"edge-2"}
  /\ "edge-1" \in DOMAIN healthHistory
  /\ "edge-1" \in DOMAIN lastHealthDurationsThreadsafe
  /\ "edge-1" \in DOMAIN lastHealthEndTimes
  /\ "edge-2" \in DOMAIN healthHistory

\* number of results that went through the per-result loop so far
ResultsProcessed ==
  Len(polls) - Len(cacheHealthChan)
    - (CASE pc \in {"select", "inner", "call"} -> Len(results)
         [] pc = "loop" -> Len(results) - (i - 1)
         [] OTHER -> 0)

\* C23: the fetch counter equals the number of results processed so far,
\* errored ones included (after whole batches: the number of results
\* signalled); it grows by one per result and never decreases; the processor
\* never changes the error counter.
C23_CountersTrackResults ==
  [][ /\ fetchCount' = ResultsProcessed'
      /\ pc' = "recv" => fetchCount' = Cardinality({k \in 1..Len(polls') :
                                                     PollFinished'[k] >= 1})
      /\ fetchCount' >= fetchCount
      /\ fetchCount' # fetchCount => (pc = "loop" /\ fetchCount' = fetchCount + 1)
      /\ (pc = "loop" /\ <<pc, i>>' # <<pc, i>>) => fetchCount' = fetchCount + 1
      /\ errorCount' = errorCount
      /\ errorCount' = 0
    ]_vars

C23_Witness ==
  /\ pc = "recv"
  /\ fetchCount = MaxPolls
  /\ errorCount = 0
  /\ polls[1].Error
  /\ ~polls[2].Error
  /\ polls[3].Error

====
